---- MODULE Spec2Model ----
(***************************************************************************)
(* Model of the Maxwell mini-app driver (miniapps/electromagnetics/        *)
(* maxwell.cpp: main, SnapTimeStep) and of the abstract matrix types       *)
(* (linalg/matrix.hpp: Matrix, MatrixInverse).                             *)
(*                                                                         *)
(* Real numbers (C++ double) are modelled exactly, as decimal-scaled       *)
(* rationals [n, d, e] standing for (n / d) * 10^e, kept in the canonical  *)
(* form of Norm.  A zero denominator marks the IEEE specials: PosInf is    *)
(* x/0 for x > 0 and NaN is 0 * inf.  Rounding of double arithmetic is not *)
(* modelled.  C++ int is 32-bit two's complement.                          *)
(***************************************************************************)
EXTENDS Integers, Sequences, FiniteSets, TLC

(***************************************************************************)
(* Bounds of the model.                                                    *)
(***************************************************************************)
\* -t is drawn from 1..MaxTmax (nanoseconds)
MaxTmax == 12
\* the mantissa of the stable step is drawn from 1..MaxDtMant
MaxDtMant == 4
\* -n is drawn from -1..MaxIts
MaxIts == 5
\* the energy scalar read back from the solver is drawn from 0..MaxEnergy
MaxEnergy == 1
\* matrix dimensions are drawn from 0..MaxDim
MaxDim == 2
\* at most MaxObjs matrices and MaxObjs inverses are constructed
MaxObjs == 2
\* sparse matrix dimensions are drawn from 0..MaxSpDim
MaxSpDim == 2
\* a sparse matrix stores at most MaxNnz entries
MaxNnz == 3
\* entries are whole multiples of a unit; a row has "almost" zero l1-norm
\* when the norm is at most SpEps units
SpEps == 1
\* EliminateZeroRows is called at most MaxCalls times
MaxCalls == 3
\* the values of voltaic_pile and current_ring are drawn from
\* -MaxSrc..MaxSrc
MaxSrc == 1
\* the solver evaluates its source function at most MaxEvals times
MaxEvals == 2

\* the stable step is q * 10^-k seconds for k in DtDecimals: around the
\* nanosecond scale of -t, and far below it so that tmax/dtmax reaches
\* 10^8..10^9
DtDecimals == {7, 8, 9, 10, 17, 18}

(***************************************************************************)
(* 32-bit int.                                                             *)
(***************************************************************************)
TwoTo15 == 32768
TwoTo16 == 65536

Abs(x) == IF x < 0 THEN -x ELSE x
Min(a, b) == IF a < b THEN a ELSE b
Max(a, b) == IF a > b THEN a ELSE b

RECURSIVE Gcd(_, _)
Gcd(a, b) == IF b = 0 THEN a ELSE Gcd(b, a % b)

\* 10^k and 5^k for the exponents whose power fits in an int
Pow10(k) ==
  CASE k = 0 -> 1 [] k = 1 -> 10 [] k = 2 -> 100 [] k = 3 -> 1000
    [] k = 4 -> 10000 [] k = 5 -> 100000 [] k = 6 -> 1000000
    [] k = 7 -> 10000000 [] k = 8 -> 100000000 [] k = 9 -> 1000000000
Pow5(k) ==
  CASE k = 0 -> 1 [] k = 1 -> 5 [] k = 2 -> 25 [] k = 3 -> 125
    [] k = 4 -> 625 [] k = 5 -> 3125

\* c * x in int arithmetic for 0 <= c < 2^15 and 0 <= x < 2^31: the
\* product reduced modulo 2^32 into -2^31 .. 2^31-1, computed on 16-bit
\* halves
Mul32(c, x) ==
  LET xl == x % TwoTo16
      xh == x \div TwoTo16
      lo == c * xl
      L  == lo % TwoTo16
      H  == (c * xh + lo \div TwoTo16) % TwoTo16
  IN  IF H >= TwoTo15 THEN (H - TwoTo16) * TwoTo16 + L
                      ELSE H * TwoTo16 + L

\* the largest int
IntMax == 2147483647

\* a + b in int arithmetic: the sum reduced modulo 2^32 into
\* -2^31 .. 2^31-1
Add32(a, b) ==
  IF a >= 0 /\ b >= 0 /\ a > IntMax - b
    THEN (a - IntMax - 1) + (b - IntMax - 1)
  ELSE IF a < 0 /\ b < 0 /\ a < (-IntMax - 1) - b
    THEN (a + IntMax + 1) + (b + IntMax + 1)
  ELSE a + b

\* a * b in int arithmetic for a >= 0, by doubling
RECURSIVE IntMul(_, _)
IntMul(a, b) ==
  IF a = 0 THEN 0
  ELSE LET h == IntMul(a \div 2, b)
           d == Add32(h, h)
       IN  IF a % 2 = 1 THEN Add32(d, b) ELSE d

(***************************************************************************)
(* Exact reals.                                                            *)
(***************************************************************************)
Zero   == [n |-> 0, d |-> 1, e |-> 0]
PosInf == [n |-> 1, d |-> 0, e |-> 0]
NegInf == [n |-> -1, d |-> 0, e |-> 0]
NaN    == [n |-> 0, d |-> 0, e |-> 0]

IsFinite(x) == x.d # 0

\* canonical form of (n / d) * 10^e, d > 0: n/d in lowest terms, d coprime
\* to 10, n not a multiple of 10
RECURSIVE Norm(_, _, _)
Norm(n, d, e) ==
  IF n = 0 THEN Zero
  ELSE LET g == Gcd(Abs(n), d) IN
    IF g > 1 THEN Norm(n \div g, d \div g, e)
    ELSE IF d % 2 = 0 THEN Norm(n * 5, d \div 2, e - 1)
    ELSE IF d % 5 = 0 THEN Norm(n * 2, d \div 5, e - 1)
    ELSE IF n % 10 = 0 THEN Norm(n \div 10, d, e + 1)
    ELSE [n |-> n, d |-> d, e |-> e]

\* x * 10^k
RScale10(x, k) == IF x.n = 0 \/ x.d = 0 THEN x ELSE [x EXCEPT !.e = @ + k]

\* x / y for finite x and finite y > 0, cancelling before multiplying
RDiv(x, y) ==
  LET g1 == Gcd(Abs(x.n), y.n)
      g2 == Gcd(x.d, y.d)
  IN  IF x.n = 0 THEN Zero
      ELSE Norm((x.n \div g1) * (y.d \div g2),
                (x.d \div g2) * (y.n \div g1), x.e - y.e)

\* x / k for finite x and int k, as IEEE division does: x / 0 is an
\* infinity for x > 0
RDivInt(x, k) ==
  IF k = 0 THEN (IF x.n = 0 THEN NaN ELSE PosInf)
  ELSE LET g == Gcd(Abs(x.n), Abs(k))
           s == IF k < 0 THEN -1 ELSE 1
       IN  Norm(s * (x.n \div g), x.d * (Abs(k) \div g), x.e)

\* x * y for finite x, y, cancelling before multiplying
RMul(x, y) ==
  IF x.n = 0 \/ y.n = 0 THEN Zero
  ELSE LET g1 == Gcd(Abs(x.n), y.d)
           g2 == Gcd(Abs(y.n), x.d)
       IN  Norm((x.n \div g1) * (y.n \div g2),
                (x.d \div g2) * (y.d \div g1), x.e + y.e)

\* k * x for int k, as IEEE multiplication does: 0 * inf is NaN
RMulInt(k, x) ==
  IF x.d = 0 THEN (IF k = 0 \/ x.n = 0 THEN NaN
                   ELSE IF k > 0 THEN PosInf ELSE NegInf)
  ELSE RMul(Norm(k, 1, 0), x)

\* n * 10^k <= d for n, d >= 1, without forming a product beyond int range
LeScaled(n, k, d) ==
  IF k >= 10 THEN FALSE
  ELSE IF k >= 0 THEN n <= d \div Pow10(k)
  ELSE IF k <= -10 THEN TRUE
  ELSE (n \div Pow10(-k)) + (IF n % Pow10(-k) = 0 THEN 0 ELSE 1) <= d

\* x <= 1 for finite x
RLeOne(x) == x.n <= 0 \/ LeScaled(x.n, x.e, x.d)

\* x <= y for y finite and positive; +inf exceeds every finite y and NaN
\* compares false
RLe(x, y) == IF x.d = 0 THEN FALSE ELSE RLeOne(RDiv(x, y))

\* x + y for finite x, y of the same sign
RAdd(x, y) ==
  IF x.n = 0 THEN y
  ELSE IF y.n = 0 THEN x
  ELSE LET m  == Min(x.e, y.e)
           g  == Gcd(x.d, y.d)
           xn == x.n * Pow10(x.e - m)
           yn == y.n * Pow10(y.e - m)
       IN  Norm(xn * (y.d \div g) + yn * (x.d \div g), x.d * (y.d \div g), m)

\* ceil(log10(x)) for finite x > 0: the least k with 10^k >= x
CeilLog10(x) ==
  x.e + (CHOOSE j \in -10..10 :
            /\ LeScaled(x.n, -j, x.d)
            /\ ~ LeScaled(x.n, -(j - 1), x.d))

\* (int)pow(10, a): a double in (0,1) truncates to 0
IntPow10(a) == IF a < 0 THEN 0 ELSE Pow10(a)

(***************************************************************************)
(* int SnapTimeStep(double tmax, double dtmax, double & dt)                *)
(***************************************************************************)
\* the i-th candidate of the loop, i in 1..5
SnapCandidate(dsteps, i) ==
  LET a == CeilLog10(RDivInt(dsteps, Pow5(i)))
  IN  Mul32(Pow5(i), Max(1, IntPow10(a)))

RECURSIVE SnapLoop(_, _, _)
SnapLoop(dsteps, nsteps, i) ==
  IF i > 5 THEN nsteps
  ELSE SnapLoop(dsteps, Min(nsteps, SnapCandidate(dsteps, i)), i + 1)

\* the returned step count
SnapTimeStep(tmax, dtmax) ==
  LET dsteps == RDiv(tmax, dtmax)
      nsteps == IntPow10(CeilLog10(dsteps))
  IN  SnapLoop(dsteps, nsteps, 1)

\* the step size written through dt
SnapTimeStepDt(tmax, dtmax) == RDivInt(tmax, SnapTimeStep(tmax, dtmax))

(***************************************************************************)
(* State of main.  pc is the position in main; the variables after `it`    *)
(* record the calls main has made on its collaborators.                    *)
(***************************************************************************)
VARIABLES
  pc,            \* position in main
  max_its,       \* int max_its
  visualization, \* bool visualization
  visit,         \* bool visit
  tmax,          \* double tmax
  dt,            \* double dt
  dtmax,         \* double dtmax
  nsteps,        \* int nsteps
  t,             \* double t
  energy,        \* double energy
  it,            \* int it, the loop index
  snapCalls,     \* number of calls of SnapTimeStep
  snapResult,    \* the value SnapTimeStep returned
  initCalled,    \* siaSolver.Init has been called
  stepCalls,     \* number of calls of siaSolver.Step
  dtPassed,      \* the dt arguments Step has received
  solverTime,    \* the last argument of Maxwell.SetTime
  lastWritten,   \* the last argument of Maxwell.WriteVisItFields
  iterLog,       \* the collaborator calls of the current loop iteration
  matrices,      \* the Matrix objects constructed so far
  inverses,      \* the MatrixInverse objects constructed so far
  invSource,     \* for each inverse: its source and the source's dimensions
                 \* when the inverse was constructed
  spMat,         \* the sparse matrix: dimensions, sparsity pattern, entries
  spFirst,       \* the sparse matrix as constructed
  spPrev,        \* the sparse matrix before the latest EliminateZeroRows
  spCalls,       \* number of calls of EliminateZeroRows
  spErr,         \* EliminateZeroRows has raised its error
  srcPc,         \* position in the part of main that sets up the sources
  vpSize,        \* vp_params_.Size()
  crSize,        \* cr_params_.Size()
  srcPassed,     \* the source function main hands to MaxwellSolver
  jVec,          \* the vector j the solver passes to the source function
  jCalls,        \* number of calls of the source function
  srcEval        \* the values voltaic_pile and current_ring take at the
                 \* point and time of the latest call

mainVars == <<pc, max_its, visualization, visit, tmax, dt, dtmax, nsteps, t,
              energy, it, snapCalls, snapResult, initCalled, stepCalls,
              dtPassed, solverTime, lastWritten, iterLog>>
matVars == <<matrices, inverses, invSource>>
sparseVars == <<spMat, spFirst, spPrev, spCalls, spErr>>
srcVars == <<srcPc, vpSize, crSize, srcPassed, jVec, jCalls, srcEval>>
vars == <<mainVars, matVars, sparseVars, srcVars>>

\* defaults of the command-line options (declarations at the top of main)
DefaultMaxIts == 100
DefaultTmaxNs == 40
DefaultDtExp == -12

\* the values -t, -n can take on the command line; an option that is not
\* given keeps its default
TmaxInputs == {Norm(k, 1, 0) : k \in 1..MaxTmax} \cup {tmax}
MaxItsInputs == (-1..MaxIts) \cup {max_its}
\* the values Maxwell.GetMaximumTimeStep() can return
DtmaxInput(q, k) == Norm(q, 1, -k)
EnergyInputs == 0..MaxEnergy

\* tmax/dtmax <= 10^9: every power of ten SnapTimeStep converts to int is
\* then representable in int
InIntRange(tm, dtm) == RLeOne(RScale10(RDiv(tm, dtm), -9))

MainInit ==
  /\ pc = "parse"
  /\ max_its = DefaultMaxIts
  /\ visualization = TRUE
  /\ visit = TRUE
  /\ dt = Norm(1, 1, DefaultDtExp)
  /\ tmax = Norm(DefaultTmaxNs, 1, 0)
  /\ dtmax = Zero
  /\ nsteps = 0
  /\ t = Zero
  /\ energy = 0
  /\ it = 0
  /\ snapCalls = 0
  /\ snapResult = 0
  /\ initCalled = FALSE
  /\ stepCalls = 0
  /\ dtPassed = {}
  /\ solverTime = Zero
  /\ lastWritten = -1
  /\ iterLog = <<>>

\* args.Parse(); if (!args.Good()) return 1;
ParseArgs ==
  /\ pc = "parse"
  /\ \E good \in BOOLEAN :
       IF good
       THEN /\ max_its' \in MaxItsInputs
            /\ tmax' \in TmaxInputs
            /\ visualization' \in BOOLEAN
            /\ visit' \in BOOLEAN
            /\ pc' = "mesh"
       ELSE /\ pc' = "ret1"
            /\ UNCHANGED <<max_its, tmax, visualization, visit>>
  /\ UNCHANGED <<dt, dtmax, nsteps, t, energy, it, snapCalls, snapResult,
                 initCalled, stepCalls, dtPassed, solverTime, lastWritten,
                 iterLog, matVars, sparseVars, srcVars>>

\* ifstream imesh(mesh_file); if (!imesh) return 2;
OpenMesh ==
  /\ pc = "mesh"
  /\ \E ok \in BOOLEAN : pc' = IF ok THEN "build" ELSE "ret2"
  /\ UNCHANGED <<max_its, visualization, visit, tmax, dt, dtmax, nsteps, t,
                 energy, it, snapCalls, snapResult, initCalled, stepCalls,
                 dtPassed, solverTime, lastWritten, iterLog,
                 matVars, sparseVars, srcVars>>

\* mesh refinement, MaxwellSolver construction, initial fields and the
\* first energy = Maxwell.GetEnergy()
BuildSolver ==
  /\ pc = "build"
  /\ energy' \in EnergyInputs
  /\ pc' = "dtmax"
  /\ UNCHANGED <<max_its, visualization, visit, tmax, dt, dtmax, nsteps, t,
                 it, snapCalls, snapResult, initCalled, stepCalls, dtPassed,
                 solverTime, lastWritten, iterLog,
                 matVars, sparseVars, srcVars>>

\* dtmax = Maxwell.GetMaximumTimeStep(); tmax *= 1e-9;
GetMaximumTimeStep ==
  /\ pc = "dtmax"
  /\ tmax' = RScale10(tmax, -9)
  /\ \E k \in DtDecimals, q \in 1..MaxDtMant :
       /\ InIntRange(RScale10(tmax, -9), DtmaxInput(q, k))
       /\ dtmax' = DtmaxInput(q, k)
  /\ pc' = "snap"
  /\ UNCHANGED <<max_its, visualization, visit, dt, nsteps, t, energy, it,
                 snapCalls, snapResult, initCalled, stepCalls, dtPassed,
                 solverTime, lastWritten, iterLog,
                 matVars, sparseVars, srcVars>>

\* int nsteps = SnapTimeStep(tmax, dtmax, dt);
CallSnapTimeStep ==
  /\ pc = "snap"
  /\ nsteps' = SnapTimeStep(tmax, dtmax)
  /\ dt' = SnapTimeStepDt(tmax, dtmax)
  /\ snapResult' = nsteps'
  /\ snapCalls' = snapCalls + 1
  /\ pc' = "cap"
  /\ UNCHANGED <<max_its, visualization, visit, tmax, dtmax, t, energy, it,
                 initCalled, stepCalls, dtPassed, solverTime, lastWritten,
                 iterLog, matVars, sparseVars, srcVars>>

\* if ( nsteps > max_its ) { nsteps = max_its; }
CapSteps ==
  /\ pc = "cap"
  /\ nsteps' = IF nsteps > max_its THEN max_its ELSE nsteps
  /\ pc' = "init"
  /\ UNCHANGED <<max_its, visualization, visit, tmax, dt, dtmax, t, energy,
                 it, snapCalls, snapResult, initCalled, stepCalls, dtPassed,
                 solverTime, lastWritten, iterLog,
                 matVars, sparseVars, srcVars>>

\* InitSolver with the Init call left out
InitSolver_Omitted ==
  /\ pc = "init"
  /\ pc' = "preloop"
  /\ UNCHANGED <<max_its, visualization, visit, tmax, dt, dtmax, nsteps, t,
                 energy, it, snapCalls, snapResult, initCalled, stepCalls,
                 dtPassed, solverTime, lastWritten, iterLog,
                 matVars, sparseVars, srcVars>>

\* SIAVSolver siaSolver(tOrder); siaSolver.Init(Maxwell.GetNegCurl(), Maxwell);
InitSolver ==
  /\ pc = "init"
  /\ initCalled' = TRUE
  /\ pc' = "preloop"
  /\ UNCHANGED <<max_its, visualization, visit, tmax, dt, dtmax, nsteps, t,
                 energy, it, snapCalls, snapResult, stepCalls, dtPassed,
                 solverTime, lastWritten, iterLog,
                 matVars, sparseVars, srcVars>>

\* InitializeGLVis; t = 0.0; SetTime(t); RegisterVisItFields;
\* WriteVisItFields(0); DisplayToGLVis; and the for statement's int it = 1
PreLoop ==
  /\ pc = "preloop"
  /\ t' = Zero
  /\ solverTime' = t'
  /\ lastWritten' = IF visit THEN 0 ELSE lastWritten
  /\ it' = 1
  /\ pc' = "loop"
  /\ UNCHANGED <<max_its, visualization, visit, tmax, dt, dtmax, nsteps,
                 energy, snapCalls, snapResult, initCalled, stepCalls,
                 dtPassed, iterLog, matVars, sparseVars, srcVars>>

\* LoopTest with the condition it < nsteps
LoopTest_OffByOne ==
  /\ pc = "loop"
  /\ pc' = IF it < nsteps THEN "step" ELSE "finalize"
  /\ iterLog' = IF it < nsteps THEN <<>> ELSE iterLog
  /\ UNCHANGED <<max_its, visualization, visit, tmax, dt, dtmax, nsteps, t,
                 energy, it, snapCalls, snapResult, initCalled, stepCalls,
                 dtPassed, solverTime, lastWritten,
                 matVars, sparseVars, srcVars>>

\* the loop condition it <= nsteps
LoopTest ==
  /\ pc = "loop"
  /\ pc' = IF it <= nsteps THEN "step" ELSE "finalize"
  /\ iterLog' = IF it <= nsteps THEN <<>> ELSE iterLog
  /\ UNCHANGED <<max_its, visualization, visit, tmax, dt, dtmax, nsteps, t,
                 energy, it, snapCalls, snapResult, initCalled, stepCalls,
                 dtPassed, solverTime, lastWritten,
                 matVars, sparseVars, srcVars>>

\* what SIAVSolver::Step does to its argument t
StepTime(tt, h) == RAdd(tt, h)

\* siaSolver.Step(Maxwell.GetBField(),Maxwell.GetEField(),t,dt);
Step ==
  /\ pc = "step"
  /\ t' = StepTime(t, dt)
  /\ stepCalls' = stepCalls + 1
  /\ dtPassed' = dtPassed \cup {dt}
  /\ iterLog' = Append(iterLog, "Step")
  /\ pc' = "settime"
  /\ UNCHANGED <<max_its, visualization, visit, tmax, dt, dtmax, nsteps,
                 energy, it, snapCalls, snapResult, initCalled, solverTime,
                 lastWritten, matVars, sparseVars, srcVars>>

\* Maxwell.SetTime(t);
SetTime ==
  /\ pc = "settime"
  /\ solverTime' = t
  /\ iterLog' = Append(iterLog, "SetTime")
  /\ pc' = "energy"
  /\ UNCHANGED <<max_its, visualization, visit, tmax, dt, dtmax, nsteps, t,
                 energy, it, snapCalls, snapResult, initCalled, stepCalls,
                 dtPassed, lastWritten, matVars, sparseVars, srcVars>>

\* GetEnergy with the energy read fed back into the step size
GetEnergy_Feedback ==
  /\ pc = "energy"
  /\ energy' \in EnergyInputs
  /\ dt' = IF energy' > 0 THEN RDivInt(dt, 2) ELSE dt
  /\ iterLog' = Append(iterLog, "GetEnergy")
  /\ pc' = "sync"
  /\ UNCHANGED <<max_its, visualization, visit, tmax, dtmax, nsteps, t,
                 it, snapCalls, snapResult, initCalled, stepCalls, dtPassed,
                 solverTime, lastWritten, matVars, sparseVars, srcVars>>

\* energy = Maxwell.GetEnergy();
GetEnergy ==
  /\ pc = "energy"
  /\ energy' \in EnergyInputs
  /\ iterLog' = Append(iterLog, "GetEnergy")
  /\ pc' = "sync"
  /\ UNCHANGED <<max_its, visualization, visit, tmax, dt, dtmax, nsteps, t,
                 it, snapCalls, snapResult, initCalled, stepCalls, dtPassed,
                 solverTime, lastWritten, matVars, sparseVars, srcVars>>

\* SyncGridFuncs with the call left out
SyncGridFuncs_Omitted ==
  /\ pc = "sync"
  /\ pc' = "visit"
  /\ UNCHANGED <<max_its, visualization, visit, tmax, dt, dtmax, nsteps, t,
                 energy, it, snapCalls, snapResult, initCalled, stepCalls,
                 dtPassed, solverTime, lastWritten, iterLog,
                 matVars, sparseVars, srcVars>>

\* Maxwell.SyncGridFuncs();
SyncGridFuncs ==
  /\ pc = "sync"
  /\ iterLog' = Append(iterLog, "SyncGridFuncs")
  /\ pc' = "visit"
  /\ UNCHANGED <<max_its, visualization, visit, tmax, dt, dtmax, nsteps, t,
                 energy, it, snapCalls, snapResult, initCalled, stepCalls,
                 dtPassed, solverTime, lastWritten,
                 matVars, sparseVars, srcVars>>

\* if ( visit ) { Maxwell.WriteVisItFields(it); }
WriteVisItFields ==
  /\ pc = "visit"
  /\ iterLog' = IF visit THEN Append(iterLog, "WriteVisItFields") ELSE iterLog
  /\ lastWritten' = IF visit THEN it ELSE lastWritten
  /\ pc' = "glvis"
  /\ UNCHANGED <<max_its, visualization, visit, tmax, dt, dtmax, nsteps, t,
                 energy, it, snapCalls, snapResult, initCalled, stepCalls,
                 dtPassed, solverTime, matVars, sparseVars, srcVars>>

\* if (visualization) { Maxwell.DisplayToGLVis(); }
DisplayToGLVis ==
  /\ pc = "glvis"
  /\ iterLog' = IF visualization THEN Append(iterLog, "DisplayToGLVis")
                                 ELSE iterLog
  /\ pc' = "incr"
  /\ UNCHANGED <<max_its, visualization, visit, tmax, dt, dtmax, nsteps, t,
                 energy, it, snapCalls, snapResult, initCalled, stepCalls,
                 dtPassed, solverTime, lastWritten,
                 matVars, sparseVars, srcVars>>

\* the for statement's it++
LoopIncr ==
  /\ pc = "incr"
  /\ it' = it + 1
  /\ pc' = "loop"
  /\ UNCHANGED <<max_its, visualization, visit, tmax, dt, dtmax, nsteps, t,
                 energy, snapCalls, snapResult, initCalled, stepCalls,
                 dtPassed, solverTime, lastWritten, iterLog,
                 matVars, sparseVars, srcVars>>

\* MPI_Finalize(); return 0;
Finalize ==
  /\ pc = "finalize"
  /\ pc' = "ret0"
  /\ UNCHANGED <<max_its, visualization, visit, tmax, dt, dtmax, nsteps, t,
                 energy, it, snapCalls, snapResult, initCalled, stepCalls,
                 dtPassed, solverTime, lastWritten, iterLog,
                 matVars, sparseVars, srcVars>>

(***************************************************************************)
(* linalg/matrix.hpp: Matrix and MatrixInverse.  An object is the pair of  *)
(* dimensions its Operator base holds; a Matrix also records whether it    *)
(* has been destroyed.                                                     *)
(***************************************************************************)
Dims == 0..MaxDim

\* explicit Matrix(int s) : Operator(s) -- "Creates a square matrix of size s"
MatrixSquare(s) == [height |-> s, width |-> s, alive |-> TRUE]

\* explicit Matrix(int h, int w) : Operator(h, w)
MatrixRect(h, w) == [height |-> h, width |-> w, alive |-> TRUE]

\* MatrixInverseOf with the two dimensions exchanged
MatrixInverseOf_Swapped(mat) == [height |-> mat.width, width |-> mat.height]

\* MatrixInverse(const Matrix &mat) : Solver(mat.height, mat.width) { }
MatrixInverseOf(mat) == [height |-> mat.height, width |-> mat.width]

MatInit ==
  /\ matrices = <<>>
  /\ inverses = <<>>
  /\ invSource = <<>>

NewSquareMatrix ==
  /\ Len(matrices) < MaxObjs
  /\ \E s \in Dims : matrices' = Append(matrices, MatrixSquare(s))
  /\ UNCHANGED <<inverses, invSource, mainVars, sparseVars, srcVars>>

NewMatrix ==
  /\ Len(matrices) < MaxObjs
  /\ \E h \in Dims, w \in Dims : matrices' = Append(matrices, MatrixRect(h, w))
  /\ UNCHANGED <<inverses, invSource, mainVars, sparseVars, srcVars>>

NewInverse ==
  /\ Len(inverses) < MaxObjs
  /\ \E m \in DOMAIN matrices :
       /\ matrices[m].alive
       /\ inverses' = Append(inverses, MatrixInverseOf(matrices[m]))
       /\ invSource' = Append(invSource, [id |-> m,
                                          height |-> matrices[m].height,
                                          width |-> matrices[m].width])
  /\ UNCHANGED <<matrices, mainVars, sparseVars, srcVars>>

\* virtual ~Matrix() { }
DestroyMatrix ==
  /\ \E m \in DOMAIN matrices :
       /\ matrices[m].alive
       /\ matrices' = [matrices EXCEPT ![m].alive = FALSE]
  /\ UNCHANGED <<inverses, invSource, mainVars, sparseVars, srcVars>>

(***************************************************************************)
(* linalg/matrix.hpp: AbstractSparseMatrix.  A sparse matrix is its        *)
(* dimensions and its stored entries: val maps each position <<i, j>> of   *)
(* the sparsity pattern to its value, so the pattern is DOMAIN val.        *)
(* EliminateZeroRows is pure virtual; it is modelled from its documented   *)
(* contract.                                                               *)
(***************************************************************************)
\* the value 1.0 in units: well above the "almost zero" threshold
SpOne == 10 * SpEps

SpDims == 0..MaxSpDim
SpVals == (-SpEps..SpEps) \cup {-SpOne, SpOne}

Positions(h, w) == (0..(h - 1)) \X (0..(w - 1))

\* the entries a concrete sparse matrix of the given dimensions may store
Entries(h, w) ==
  UNION {[P -> SpVals] :
           P \in {Q \in SUBSET Positions(h, w) : Cardinality(Q) <= MaxNnz}}

\* explicit AbstractSparseMatrix(int s = 0) : Matrix(s)
SparseSquare(s, val) == [height |-> s, width |-> s, val |-> val]

\* explicit AbstractSparseMatrix(int h, int w) : Matrix(h, w)
SparseRect(h, w, val) == [height |-> h, width |-> w, val |-> val]

IsSquare(m) == m.height = m.width

\* the l1-norm of the part of row i from column j on
RECURSIVE RowL1(_, _, _)
RowL1(m, i, j) ==
  IF j >= m.width THEN 0
  ELSE (IF <<i, j>> \in DOMAIN m.val THEN Abs(m.val[<<i, j>>]) ELSE 0)
       + RowL1(m, i, j + 1)

\* "row i has "almost" zero l1-norm"
AlmostZeroRow(m, i) == RowL1(m, i, 0) <= SpEps

\* the rows a call of EliminateZeroRows writes to: none unless the matrix
\* is square
ZeroRows(m) ==
  IF IsSquare(m) THEN {i \in 0..(m.height - 1) : AlmostZeroRow(m, i)}
  ELSE {}

\* "If entry (i,i) does not belong to the sparsity pattern of A, then an
\* error will occur."
DiagonalMissing(m) == \E i \in ZeroRows(m) : <<i, i>> \notin DOMAIN m.val

\* EliminatedZeroRows without the write of the diagonal
EliminatedZeroRows_NoWrite(m) == m

\* "If the matrix is square, it will place 1 on the diagonal (i,i) if row i
\* has "almost" zero l1-norm."
EliminatedZeroRows(m) ==
  [m EXCEPT !.val = [p \in DOMAIN m.val |->
                       IF p[1] = p[2] /\ p[1] \in ZeroRows(m)
                       THEN SpOne ELSE m.val[p]]]

SparseInit ==
  /\ spMat = SparseSquare(0, <<>>)
  /\ spFirst = spMat
  /\ spPrev = spMat
  /\ spCalls = 0
  /\ spErr = FALSE

NewSparseSquare ==
  /\ spCalls = 0
  /\ spMat = SparseSquare(0, <<>>)
  /\ \E s \in SpDims : \E val \in Entries(s, s) :
       /\ spMat' = SparseSquare(s, val)
       /\ spFirst' = spMat'
       /\ spPrev' = spMat'
  /\ UNCHANGED <<spCalls, spErr, mainVars, matVars, srcVars>>

NewSparseRect ==
  /\ spCalls = 0
  /\ spMat = SparseSquare(0, <<>>)
  /\ \E h \in SpDims, w \in SpDims : \E val \in Entries(h, w) :
       /\ spMat' = SparseRect(h, w, val)
       /\ spFirst' = spMat'
       /\ spPrev' = spMat'
  /\ UNCHANGED <<spCalls, spErr, mainVars, matVars, srcVars>>

\* virtual void EliminateZeroRows() = 0; the error aborts the program
EliminateZeroRows ==
  /\ ~spErr
  /\ spCalls < MaxCalls
  /\ spCalls' = spCalls + 1
  /\ spPrev' = spMat
  /\ IF DiagonalMissing(spMat)
     THEN spErr' = TRUE /\ spMat' = spMat
     ELSE spErr' = FALSE /\ spMat' = EliminatedZeroRows(spMat)
  /\ UNCHANGED <<spFirst, mainVars, matVars, srcVars>>

(***************************************************************************)
(* maxwell.cpp: the current source.  The part of main that reads the       *)
(* source parameters and hands a source function to MaxwellSolver, and     *)
(* current_src itself.  A Vector is modelled by one component; set tells   *)
(* whether the call under way has written it.                              *)
(***************************************************************************)
\* the lengths the -vp and -cr vectors may have: absent, the 9 and 10 numbers
\* voltaic_pile and current_ring read in 3D, and 2^16 numbers
ParamSizes == {0, 9, 10, TwoTo16}
SrcVals == -MaxSrc..MaxSrc

Unset == [set |-> FALSE, v |-> 0]
Assigned(v) == [set |-> TRUE, v |-> v]

\* vp_params_.Size()*cr_params_.Size() == 0: the outcomes of the test.  The
\* product is an int product; when it overflows the behaviour is undefined
\* and a build may either wrap it or reason as if it had not overflowed.
SizeProductIsZero(vs, cs) ==
  {IntMul(vs, cs) = 0} \cup {vs = 0 \/ cs = 0}

\* voltaic_pile(x, t, p): p.SetSize(x.Size()); p = 0.0; ... -- p is written
\* whatever it held
voltaic_pile(vpv, p) == Assigned(vpv)

\* current_ring(x, t, j): j.SetSize(x.Size()); j = 0.0; ...
current_ring(crv, j) == Assigned(crv)

\* void current_src(const Vector &x, double t, Vector &j); zero is the
\* outcome of the test of the size product
current_src(zero, vs, cs, vpv, crv, j) ==
  IF zero
  THEN LET j1 == IF vs > 0 THEN voltaic_pile(vpv, j) ELSE j
       IN  IF cs > 0 THEN current_ring(crv, j1) ELSE j1
  ELSE LET j1   == voltaic_pile(vpv, j)
           j_cr == current_ring(crv, Unset)
       IN  Assigned(j1.v + j_cr.v)

SrcInit ==
  /\ srcPc = "parse"
  /\ vpSize = 0
  /\ crSize = 0
  /\ srcPassed = "none"
  /\ jVec = Unset
  /\ jCalls = 0
  /\ srcEval = [vp |-> 0, cr |-> 0]

\* args.AddOption(&vp_params_, "-vp", ...); args.AddOption(&cr_params_,
\* "-cr", ...); args.Parse(); if (!args.Good()) return 1;
ParseSourceParams ==
  /\ srcPc = "parse"
  /\ \/ /\ \E vs \in ParamSizes, cs \in ParamSizes :
             vpSize' = vs /\ crSize' = cs
        /\ srcPc' = "build"
     \/ /\ srcPc' = "ret1"
        /\ UNCHANGED <<vpSize, crSize>>
  /\ UNCHANGED <<srcPassed, jVec, jCalls, srcEval, mainVars, matVars,
                 sparseVars>>

\* MaxwellSolver Maxwell(pmesh, sOrder, ...,
\*    ( vp_params_.Size() > 0 ) || ( cr_params_.Size() > 0 )
\*       ? current_src : NULL, ...);
ConstructSolver ==
  /\ srcPc = "build"
  /\ srcPassed' = IF vpSize > 0 \/ crSize > 0 THEN "current_src" ELSE "NULL"
  /\ srcPc' = "run"
  /\ UNCHANGED <<vpSize, crSize, jVec, jCalls, srcEval, mainVars, matVars,
                 sparseVars>>

\* the solver evaluates the source function it was given, if any, at a
\* point and a time, into a vector of its own
EvalSource ==
  /\ srcPc = "run"
  /\ srcPassed = "current_src"
  /\ jCalls < MaxEvals
  /\ \E vpv \in SrcVals, crv \in SrcVals :
       \E zero \in SizeProductIsZero(vpSize, crSize) :
         /\ srcEval' = [vp |-> vpv, cr |-> crv]
         /\ jVec' = current_src(zero, vpSize, crSize, vpv, crv, Unset)
  /\ jCalls' = jCalls + 1
  /\ UNCHANGED <<srcPc, vpSize, crSize, srcPassed, mainVars, matVars,
                 sparseVars>>

Init == MainInit /\ MatInit /\ SparseInit /\ SrcInit

Next ==
  \/ ParseArgs
  \/ OpenMesh
  \/ BuildSolver
  \/ GetMaximumTimeStep
  \/ CallSnapTimeStep
  \/ CapSteps
  \/ InitSolver
  \/ PreLoop
  \/ LoopTest
  \/ Step
  \/ SetTime
  \/ GetEnergy
  \/ SyncGridFuncs
  \/ WriteVisItFields
  \/ DisplayToGLVis
  \/ LoopIncr
  \/ Finalize

Spec == Init /\ [][Next]_vars

NextMatrix ==
  \/ NewSquareMatrix
  \/ NewMatrix
  \/ NewInverse
  \/ DestroyMatrix

SpecMatrix == Init /\ [][NextMatrix]_vars

NextSparse ==
  \/ NewSparseSquare
  \/ NewSparseRect
  \/ EliminateZeroRows

SpecSparse == Init /\ [][NextSparse]_vars

NextSource ==
  \/ ParseSourceParams
  \/ ConstructSolver
  \/ EvalSource

SpecSource == Init /\ [][NextSource]_vars

(***************************************************************************)
(* Properties.                                                             *)
(***************************************************************************)
\* the positions of main at which SnapTimeStep has returned
Snapped == snapCalls > 0
Returned == {"ret0", "ret1", "ret2"}
LoopBody == {"step", "settime", "energy", "sync", "visit", "glvis", "incr"}
\* the raw ratio tmax / dtmax that SnapTimeStep was given
RawSteps == RDiv(tmax, dtmax)
\* x < y for finite x and finite y > 0
RLt(x, y) == RLe(x, y) /\ x # y
\* the int k as a real
RInt(k) == Norm(k, 1, 0)

\* C1: once SnapTimeStep has returned, the step size it wrote is at most
\* the stable step, and the returned count is at least tmax / dtmax (which
\* is positive).
C1_StepWithinStable ==
  Snapped => /\ RLe(dt, dtmax)
             /\ snapResult > 0
             /\ RLe(RawSteps, RInt(snapResult))

\* the candidates as the real numbers the algorithm is described with
RealCandidates(r) ==
  {Norm(1, 1, CeilLog10(r))}
    \cup {Norm(Pow5(i), 1, Max(0, CeilLog10(RDivInt(r, Pow5(i))))) : i \in 1..5}

\* C2: the returned count is the smallest candidate that is >= tmax / dtmax.
C2_SmallestCandidate ==
  Snapped =>
    LET r   == RawSteps
        res == RInt(snapResult)
        ok  == {c \in RealCandidates(r) : RLe(r, c)}
    IN  /\ res \in ok
        /\ \A c \in ok : RLe(res, c)

\* C3: the returned count is a positive integer and the step size written
\* is positive and finite.
C3_PositivePlan ==
  Snapped => /\ snapResult >= 1
             /\ IsFinite(dt)
             /\ dt.n > 0

\* C4: the returned count times the step size written is the duration.
C4_ProductIsDuration ==
  Snapped => RMulInt(snapResult, dt) = tmax

\* C5 as claimed: on return from the loop Step has been called exactly
\* min(stepCount, max_its) times.
C5_StepCallsMin ==
  pc = "ret0" => stepCalls = Min(snapResult, max_its)

\* rank of a position of main: it falls along the straight-line part, and
\* within the loop it falls from the test to the increment
PcRank ==
  CASE pc = "parse" -> 9 [] pc = "mesh" -> 8 [] pc = "build" -> 7
    [] pc = "dtmax" -> 6 [] pc = "snap" -> 5 [] pc = "cap" -> 4
    [] pc = "init" -> 3 [] pc = "preloop" -> 2
    [] pc = "loop" -> 7 [] pc = "step" -> 6 [] pc = "settime" -> 5
    [] pc = "energy" -> 4 [] pc = "sync" -> 3 [] pc = "visit" -> 2
    [] pc = "glvis" -> 1 [] pc = "incr" -> 0
    [] pc = "finalize" -> 1 [] pc = "ret0" -> 0
    [] pc = "ret1" -> 0 [] pc = "ret2" -> 0
\* 2 before the loop, 1 in it, 0 after it
Phase ==
  IF pc \in LoopBody \cup {"loop"} THEN 1
  ELSE IF pc \in Returned \cup {"finalize"} THEN 0
  ELSE 2
\* the number of statements the loop has yet to run: a natural number
LoopVariant == 8 * Max(0, nsteps - it + 1) + PcRank
VariantFalls ==
  \/ Phase' < Phase
  \/ Phase' = Phase /\ Phase = 1 /\ LoopVariant' < LoopVariant
  \/ Phase' = Phase /\ Phase # 1 /\ PcRank' < PcRank

\* the statements of the time-evolution loop
LoopNext ==
  \/ LoopTest
  \/ Step
  \/ SetTime
  \/ GetEnergy
  \/ SyncGridFuncs
  \/ WriteVisItFields
  \/ DisplayToGLVis
  \/ LoopIncr

\* C5: the loop cannot run forever and cannot stop inside an iteration (every
\* step of main lowers a well-founded variant, and within the loop a next
\* statement can always run); on return from the loop Step has been called
\* exactly max(0, min(stepCount, max_its)) times.
C5_TerminatesWithCount ==
  /\ [][VariantFalls]_vars
  /\ [](pc \in LoopBody \cup {"loop"} => ENABLED LoopNext)
  /\ [](pc = "ret0" => stepCalls = Max(0, Min(snapResult, max_its)))

C5_Witness ==
  /\ pc = "ret0"
  /\ max_its < snapResult
  /\ max_its >= 2
  /\ stepCalls = max_its

\* C6: the time given to SetTime in iteration k is k * dt; the final time is
\* min(stepCount, max_its) * dt, which is the duration when the count is
\* within the cap, and otherwise dt stays tmax / stepCount and the final time
\* is strictly less than the duration.
C6_TimeAdvance ==
  /\ pc = "energy" => solverTime = RMulInt(it, dt)
  /\ pc = "ret0" =>
       /\ t = RMulInt(Min(snapResult, max_its), dt)
       /\ snapResult <= max_its => t = tmax
       /\ snapResult > max_its =>
            /\ dt = RDivInt(tmax, snapResult)
            /\ RLt(t, tmax)

\* position of the first occurrence of call c in the log, 0 when absent
RECURSIVE FirstAt(_, _, _)
FirstAt(log, c, i) ==
  IF i > Len(log) THEN 0
  ELSE IF log[i] = c THEN i
  ELSE FirstAt(log, c, i + 1)
Count(log, c) == Cardinality({i \in DOMAIN log : log[i] = c})
Before(log, a, b) == FirstAt(log, a, 1) # 0 /\ FirstAt(log, a, 1) < FirstAt(log, b, 1)
Outputs == {"WriteVisItFields", "DisplayToGLVis"}

\* C7: in each iteration SyncGridFuncs is called once, after Step and SetTime
\* and before any output of the iteration; an output for index it is written
\* after it Step calls; the energy is read after Step and SetTime.
C7_SyncBeforeOutput ==
  /\ Count(iterLog, "SyncGridFuncs") <= 1
  /\ pc \in {"visit", "glvis", "incr"} => Count(iterLog, "SyncGridFuncs") = 1
  /\ \A i \in DOMAIN iterLog :
       /\ iterLog[i] \in Outputs =>
            /\ Before(iterLog, "SyncGridFuncs", iterLog[i])
            /\ pc \in LoopBody => stepCalls = it
       /\ iterLog[i] = "SyncGridFuncs" =>
            /\ Before(iterLog, "Step", "SyncGridFuncs")
            /\ Before(iterLog, "SetTime", "SyncGridFuncs")
       /\ iterLog[i] = "GetEnergy" =>
            /\ Before(iterLog, "Step", "GetEnergy")
            /\ Before(iterLog, "SetTime", "GetEnergy")
  /\ (pc \in {"glvis", "incr"} /\ visit)
       => (lastWritten = it /\ lastWritten = stepCalls)

C7_Witness ==
  /\ pc = "incr"
  /\ it = 2
  /\ iterLog = <<"Step", "SetTime", "GetEnergy", "SyncGridFuncs",
                 "WriteVisItFields", "DisplayToGLVis">>

\* C8: SnapTimeStep is called once, before the loop; no step of the loop
\* changes dt or nsteps; every Step call receives the same dt.
C8_PlanFixed ==
  /\ [](/\ snapCalls <= 1
        /\ pc \in LoopBody \cup {"loop", "finalize", "ret0"} => snapCalls = 1
        /\ Cardinality(dtPassed) <= 1
        /\ dtPassed \subseteq {dt})
  /\ [][(pc \in LoopBody \cup {"loop"}) => (dt' = dt /\ nsteps' = nsteps)]_vars

C8_Witness ==
  /\ pc = "step"
  /\ it = 3
  /\ energy = MaxEnergy
  /\ visit
  /\ ~visualization
  /\ dtPassed = {dt}

\* C9: Step is never called before Init, and a run that returns on an error
\* path has called neither.
C9_InitBeforeStep ==
  /\ stepCalls > 0 => initCalled
  /\ pc = "step" => initCalled
  /\ pc \in {"ret1", "ret2"} => (stepCalls = 0 /\ ~initCalled)
  /\ pc \in LoopBody \cup {"loop", "finalize", "ret0"} => initCalled

C9_Witness ==
  /\ pc = "settime"
  /\ stepCalls = 1
  /\ initCalled

\* the inverses constructed so far, each from a source matrix
FromSource == DOMAIN inverses

C11_Idempotent ==
  /\ (spCalls >= 1 /\ ~spErr) => ZeroRows(spMat) = {}
  /\ (spCalls >= 2 /\ ~spErr) => spMat = spPrev

\* a square matrix of dimension 2 with a stored off-diagonal entry, whose
\* first call placed a 1 and whose second call succeeded too
C11_Witness ==
  /\ spCalls = 2
  /\ ~spErr
  /\ spMat.height = 2 /\ spMat.width = 2
  /\ spMat # spFirst
  /\ \E p \in DOMAIN spMat.val : p[1] # p[2] /\ spMat.val[p] # 0
  /\ \E i \in 0..1 : /\ <<i, i>> \in DOMAIN spMat.val
                     /\ spMat.val[<<i, i>>] = SpOne
                     /\ spFirst.val[<<i, i>>] # SpOne

(***************************************************************************)
(* C12.  Whenever the raw ratio tmax / dtmax lies in [1, 10^9], so that    *)
(* the smallest candidate at or above it fits in an int, no candidate that *)
(* SnapTimeStep computes exceeds 2^31 - 1: neither the power of ten        *)
(* 10^ceil(log10(ratio)) nor any 5^i * max(1, 10^a), i in 1..5; hence      *)
(* every int candidate is its true value and the count returned is the     *)
(* least of the true candidates.                                           *)
(***************************************************************************)
\* the exponent a of the i-th candidate
CandidateExp(r, i) == CeilLog10(RDivInt(r, Pow5(i)))

\* the true product 5^i * max(1, 10^a) is at most 2^31 - 1
CandidateFits(r, i) ==
  Max(1, IntPow10(CandidateExp(r, i))) <= IntMax \div Pow5(i)

C12_NoCandidateOverflows ==
  (Snapped /\ RLe(RInt(1), RawSteps) /\ RLe(RawSteps, Norm(1, 1, 9))) =>
    /\ CeilLog10(RawSteps) <= 9
    /\ \A i \in 1..5 : CandidateFits(RawSteps, i)
    /\ \A i \in 1..5 :
         SnapCandidate(RawSteps, i)
           = Pow5(i) * Max(1, IntPow10(CandidateExp(RawSteps, i)))
    /\ \A i \in 1..5 : snapResult <= SnapCandidate(RawSteps, i)
    /\ snapResult >= 1

(***************************************************************************)
(* C13.  current_src writes into j the sum of the configured sources:      *)
(* voltaic_pile alone when only vp_params_ is non-empty, current_ring      *)
(* alone when only cr_params_ is non-empty, their sum when both are.  It   *)
(* leaves j as it was only when neither is configured, and then main       *)
(* passes NULL instead of current_src, so that every call the solver makes *)
(* assigns j.                                                              *)
(***************************************************************************)
\* the sum of the configured sources at the point and time of the call
ConfiguredSum(vs, cs, vpv, crv) ==
  (IF vs > 0 THEN vpv ELSE 0) + (IF cs > 0 THEN crv ELSE 0)

C13_SumOfConfigured ==
  /\ srcPc = "run" =>
       (srcPassed = "NULL" <=> (vpSize = 0 /\ crSize = 0))
  /\ jCalls > 0 =>
       jVec = Assigned(ConfiguredSum(vpSize, crSize, srcEval.vp, srcEval.cr))
  /\ \A vs \in ParamSizes, cs \in ParamSizes :
       \A zero \in SizeProductIsZero(vs, cs) :
         (current_src(zero, vs, cs, 1, 1, Unset) = Unset)
           <=> (vs = 0 /\ cs = 0)

====
